---- MODULE Spec2Model ----
(***************************************************************************)
(* Covered interest parity calculator: the rate engine (cip.py) and the    *)
(* forward rate interpreter (cip_interpreter.py).                          *)
(*                                                                         *)
(* The program computes on Python floats, so the model carries its own     *)
(* binary64 arithmetic (round to nearest, ties to even) over exact         *)
(* naturals; every arithmetic step of the source is one rounded operation  *)
(* of the model.                                                           *)
(***************************************************************************)
EXTENDS Integers, Sequences, FiniteSets, TLC

(***************************************************************************)
(* Natural numbers of arbitrary size: little-endian sequences of limbs in  *)
(* base 2^15, without high zero limbs (zero is the empty sequence).        *)
(***************************************************************************)
Base == 2^15

Pow2(n) == 2^n

Max(a, b) == IF a >= b THEN a ELSE b
Min(a, b) == IF a <= b THEN a ELSE b
Xor(a, b) == (a + b) % 2
Abs(n) == IF n < 0 THEN -n ELSE n
SignBit(n) == IF n < 0 THEN 1 ELSE 0

RECURSIVE BigNorm(_)
BigNorm(a) ==
    IF a = <<>> THEN <<>>
    ELSE IF a[Len(a)] = 0 THEN BigNorm(SubSeq(a, 1, Len(a) - 1))
    ELSE a

RECURSIVE BigFromInt(_)
BigFromInt(n) == IF n = 0 THEN <<>> ELSE <<n % Base>> \o BigFromInt(n \div Base)

RECURSIVE BigToInt(_)
BigToInt(a) == IF a = <<>> THEN 0 ELSE a[1] + Base * BigToInt(Tail(a))

Limb(a, i) == IF i >= 1 /\ i <= Len(a) THEN a[i] ELSE 0

RECURSIVE BigCmpFrom(_, _, _)
BigCmpFrom(a, b, i) ==
    IF i = 0 THEN 0
    ELSE IF a[i] < b[i] THEN -1
    ELSE IF a[i] > b[i] THEN 1
    ELSE BigCmpFrom(a, b, i - 1)

\* -1, 0, 1 as a <, =, > b
BigCmp(a, b) ==
    IF Len(a) < Len(b) THEN -1
    ELSE IF Len(a) > Len(b) THEN 1
    ELSE BigCmpFrom(a, b, Len(a))

\* The limbs of t at position i and the carry into the next position
RECURSIVE BigAddFrom(_, _, _, _)
BigAddFrom(a, b, i, carry) ==
    IF i > Len(a) /\ i > Len(b)
    THEN IF carry = 0 THEN <<>> ELSE <<carry>>
    ELSE <<(Limb(a, i) + Limb(b, i) + carry) % Base>>
             \o BigAddFrom(a, b, i + 1, (Limb(a, i) + Limb(b, i) + carry) \div Base)

BigAdd(a, b) == BigAddFrom(a, b, 1, 0)

RECURSIVE BigSubFrom(_, _, _, _)
BigSubFrom(a, b, i, borrow) ==
    IF i > Len(a) THEN <<>>
    ELSE IF a[i] - Limb(b, i) - borrow < 0
         THEN <<a[i] - Limb(b, i) - borrow + Base>> \o BigSubFrom(a, b, i + 1, 1)
         ELSE <<a[i] - Limb(b, i) - borrow>> \o BigSubFrom(a, b, i + 1, 0)

\* a - b, for a >= b
BigSub(a, b) == BigNorm(BigSubFrom(a, b, 1, 0))

RECURSIVE BigMulSmallFrom(_, _, _, _)
BigMulSmallFrom(a, k, i, carry) ==
    IF i > Len(a)
    THEN IF carry = 0 THEN <<>> ELSE <<carry>>
    ELSE <<(a[i] * k + carry) % Base>>
             \o BigMulSmallFrom(a, k, i + 1, (a[i] * k + carry) \div Base)

\* a * k, for 0 <= k < Base
BigMulSmall(a, k) == IF k = 0 THEN <<>> ELSE BigMulSmallFrom(a, k, 1, 0)

Zeros(n) == [i \in 1..n |-> 0]

RECURSIVE BigMulFrom(_, _, _)
BigMulFrom(a, b, i) ==
    IF i > Len(a) THEN <<>>
    ELSE BigAdd(IF a[i] = 0 THEN <<>> ELSE Zeros(i - 1) \o BigMulSmall(b, a[i]),
                BigMulFrom(a, b, i + 1))

BigMul(a, b) == IF a = <<>> \/ b = <<>> THEN <<>> ELSE BigMulFrom(a, b, 1)

\* a * 2^n
BigShl(a, n) ==
    IF a = <<>> THEN <<>>
    ELSE Zeros(n \div 15) \o BigMulSmall(a, Pow2(n % 15))

\* floor(a / 2^n), q whole limbs and r bits
BigShrBy(a, q, r) ==
    IF Len(a) <= q THEN <<>>
    ELSE BigNorm([i \in 1..(Len(a) - q) |->
             (a[i + q] \div Pow2(r)) + (Limb(a, i + q + 1) % Pow2(r)) * Pow2(15 - r)])

BigShr(a, n) == BigShrBy(a, n \div 15, n % 15)

\* bit n of a (bit 0 is the lowest)
BigBit(a, n) == (Limb(a, (n \div 15) + 1) \div Pow2(n % 15)) % 2

\* whether a has a nonzero bit below bit n
BigLowBits(a, n) ==
    \E i \in 1..Len(a) :
        \/ i <= n \div 15 /\ a[i] # 0
        \/ i = (n \div 15) + 1 /\ a[i] % Pow2(n % 15) # 0

RECURSIVE IntBitLen(_)
IntBitLen(n) == IF n = 0 THEN 0 ELSE 1 + IntBitLen(n \div 2)

BitLen(a) == IF a = <<>> THEN 0 ELSE 15 * (Len(a) - 1) + IntBitLen(a[Len(a)])

BigIsOdd(a) == a # <<>> /\ a[1] % 2 = 1

\* The largest of q0, q0 - 1, q0 - 2 whose product with d is at most rem
BigDivCorrect(rem, d, q0) ==
    IF BigCmp(BigMulSmall(d, q0), rem) <= 0 THEN q0
    ELSE IF BigCmp(BigMulSmall(d, q0 - 1), rem) <= 0 THEN q0 - 1
    ELSE q0 - 2

\* The quotient digit of rem by d (d normalised: its top limb >= Base/2, and
\* rem < d * Base): the estimate from the two top limbs is at most 2 too large.
BigDivDigit(rem, d) ==
    BigDivCorrect(rem, d,
        Min(Base - 1, (Limb(rem, Len(d) + 1) * Base + Limb(rem, Len(d))) \div d[Len(d)]))

\* Schoolbook long division, limbs i .. 1 of n remaining; rem the remainder of
\* the limbs consumed so far, quot the quotient limbs found so far (highest first).
\* Returns <<quotient, remainder>>.
RECURSIVE BigDivFrom(_, _, _, _, _)
BigDivStep(n, d, i, quot, cur, q) ==
    BigDivFrom(n, d, i - 1, <<q>> \o quot, BigSub(cur, BigMulSmall(d, q)))

BigDivFrom(n, d, i, quot, rem) ==
    IF i = 0 THEN <<BigNorm(quot), rem>>
    ELSE BigDivStep(n, d, i, quot, BigNorm(<<n[i]>> \o rem),
                    BigDivDigit(BigNorm(<<n[i]>> \o rem), d))

BigDivNormalised(n, d) == BigDivFrom(n, d, Len(n), <<>>, <<>>)

BigUnshift(qr, s) == <<qr[1], BigShr(qr[2], s)>>

\* Division after shifting both by s bits, which makes d normalised
BigDivShifted(n, d, s) == BigUnshift(BigDivNormalised(BigShl(n, s), BigShl(d, s)), s)

\* <<floor(n / d), n mod d>>, for d # 0
BigDivMod(n, d) == BigDivShifted(n, d, 15 - IntBitLen(d[Len(d)]))

RECURSIVE BigPow10(_)
BigPow10(k) == IF k = 0 THEN <<1>> ELSE BigMulSmall(BigPow10(k - 1), 10)

(***************************************************************************)
(* Python floats (IEEE 754 binary64, round to nearest, ties to even).      *)
(* A finite float is [k |-> "f", s, m, e] with value (-1)^s * m * 2^e,     *)
(* m a natural below 2^53: 2^52 <= m for a normal number, e = MinExp for a *)
(* subnormal one, m = <<>> and e = 0 for a zero.  An expression in which a *)
(* division by zero raised has the value ZeroDivisionError, which every    *)
(* operation hands on.                                                     *)
(***************************************************************************)
MantBits == 53
MinExp == -1074
MaxExp == 971

Zero(s) == [k |-> "f", s |-> s, m |-> <<>>, e |-> 0]
Inf(s) == [k |-> "inf", s |-> s, m |-> <<>>, e |-> 0]
NaN == [k |-> "nan", s |-> 0, m |-> <<>>, e |-> 0]
ZeroDivisionError == [k |-> "ZeroDivisionError", s |-> 0, m |-> <<>>, e |-> 0]

IsFinite(x) == x.k = "f"
IsZero(x) == x.k = "f" /\ x.m = <<>>
IsError(x) == x.k = "ZeroDivisionError"
IsValue(x) == x.k \in {"f", "inf", "nan"}

\* The finite float (-1)^s * m * 2^e, m with at most MantBits bits after rounding
Pack(s, m, e) ==
    IF m = <<>> THEN Zero(s)
    ELSE IF BitLen(m) > MantBits
         THEN (IF e + 1 > MaxExp THEN Inf(s)
               ELSE [k |-> "f", s |-> s, m |-> BigShr(m, 1), e |-> e + 1])
    ELSE IF e > MaxExp THEN Inf(s)
    ELSE [k |-> "f", s |-> s, m |-> m, e |-> e]

\* q plus one when the bits dropped are more than half a unit of q, or
\* exactly half and q is odd
RoundUp(q, half, low) == IF half /\ (low \/ BigIsOdd(q)) THEN BigAdd(q, <<1>>) ELSE q

\* (M + d) / 2^sh rounded to the nearest integer, ties to even (sh >= 1)
RoundShift(M, sh, sticky) ==
    RoundUp(BigShr(M, sh), BigBit(M, sh - 1) = 1, sticky \/ BigLowBits(M, sh - 1))

RoundAt(s, M, E, sticky, e) ==
    IF e <= E THEN Pack(s, BigShl(M, E - e), e)
    ELSE Pack(s, RoundShift(M, e - E, sticky), e)

\* The float nearest to (-1)^s * (M + d) * 2^E, where 0 <= d < 1 and d > 0 iff
\* sticky (a sticky M has at least MantBits + 2 bits).
RoundPack(s, M, E, sticky) == RoundAt(s, M, E, sticky, Max(E + BitLen(M) - MantBits, MinExp))

RoundQuotient(s, qr, E) == RoundPack(s, qr[1], E, qr[2] # <<>>)

RatShifted(s, N, D, E, k) == RoundQuotient(s, BigDivMod(BigShl(N, k), D), E - k)

\* The float nearest to (-1)^s * (N / D) * 2^E, for D # 0
RatToFloat(s, N, D, E) ==
    IF N = <<>> THEN Zero(s)
    ELSE RatShifted(s, N, D, E, Max(0, BitLen(D) + MantBits + 2 - BitLen(N)))

\* float(n) of a Python int
FromInt(n) == RoundPack(SignBit(n), BigFromInt(Abs(n)), 0, FALSE)

\* The float literal n * 10^-k (k >= 0), as Python reads it
Dec(n, k) == RatToFloat(SignBit(n), BigFromInt(Abs(n)), BigPow10(k), 0)

\* The float (-1)^s * 2^p, for MinExp <= p <= MaxExp + MantBits - 1
PowerOfTwo(s, p) == RoundPack(s, <<1>>, p, FALSE)

\* Python's a / b on two ints (true division, correctly rounded)
IntTrueDiv(a, b) ==
    IF b = 0 THEN ZeroDivisionError
    ELSE RatToFloat(Xor(SignBit(a), SignBit(b)), BigFromInt(Abs(a)), BigFromInt(Abs(b)), 0)

\* -1, 0, 1 as |x| <, =, > |y|, for finite x and y
CmpMag(x, y) ==
    IF x.m = <<>> \/ y.m = <<>>
    THEN (IF x.m = <<>> THEN 0 ELSE 1) - (IF y.m = <<>> THEN 0 ELSE 1)
    ELSE IF x.e + BitLen(x.m) < y.e + BitLen(y.m) THEN -1
    ELSE IF x.e + BitLen(x.m) > y.e + BitLen(y.m) THEN 1
    ELSE BigCmp(BigShl(x.m, x.e - Min(x.e, y.e)), BigShl(y.m, y.e - Min(x.e, y.e)))

\* Python's x < y on floats (false when either is a NaN)
FLt(x, y) ==
    IF x.k = "nan" \/ y.k = "nan" THEN FALSE
    ELSE IF x.k = "inf" THEN x.s = 1 /\ ~(y.k = "inf" /\ y.s = 1)
    ELSE IF y.k = "inf" THEN y.s = 0
    ELSE IF IsZero(x) /\ IsZero(y) THEN FALSE
    ELSE IF IsZero(x) THEN y.s = 0
    ELSE IF IsZero(y) THEN x.s = 1
    ELSE IF x.s # y.s THEN x.s = 1
    ELSE IF x.s = 0 THEN CmpMag(x, y) < 0
    ELSE CmpMag(x, y) > 0

FGt(x, y) == FLt(y, x)

\* Python's x == y on floats
FEq(x, y) ==
    IF x.k = "nan" \/ y.k = "nan" THEN FALSE
    ELSE IF IsZero(x) /\ IsZero(y) THEN TRUE
    ELSE x = y

FLe(x, y) == FLt(x, y) \/ FEq(x, y)

\* Python's abs(x) and -x
FAbs(x) == IF IsValue(x) THEN [x EXCEPT !.s = 0] ELSE x
FNeg(x) == IF x.k \in {"f", "inf"} THEN [x EXCEPT !.s = 1 - x.s] ELSE x

\* The sum of two finite nonzero floats whose magnitudes, aligned to the
\* exponent e, are X and Y
AddAligned(sx, X, sy, Y, e) ==
    IF sx = sy THEN RoundPack(sx, BigAdd(X, Y), e, FALSE)
    ELSE IF BigCmp(X, Y) = 0 THEN Zero(0)
    ELSE IF BigCmp(X, Y) > 0 THEN RoundPack(sx, BigSub(X, Y), e, FALSE)
    ELSE RoundPack(sy, BigSub(Y, X), e, FALSE)

\* Python's x + y on floats
FAdd(x, y) ==
    IF IsError(x) \/ IsError(y) THEN ZeroDivisionError
    ELSE IF x.k = "nan" \/ y.k = "nan" THEN NaN
    ELSE IF x.k = "inf" THEN (IF y.k = "inf" /\ y.s # x.s THEN NaN ELSE x)
    ELSE IF y.k = "inf" THEN y
    ELSE IF IsZero(x) /\ IsZero(y) THEN Zero(IF x.s = 1 /\ y.s = 1 THEN 1 ELSE 0)
    ELSE IF IsZero(y) THEN x
    ELSE IF IsZero(x) THEN y
    ELSE IF x.e - y.e > 64 THEN x
    ELSE IF y.e - x.e > 64 THEN y
    ELSE AddAligned(x.s, BigShl(x.m, x.e - Min(x.e, y.e)),
                    y.s, BigShl(y.m, y.e - Min(x.e, y.e)), Min(x.e, y.e))

\* Python's x - y on floats
FSub(x, y) == FAdd(x, FNeg(y))

\* Python's x * y on floats
FMul(x, y) ==
    IF IsError(x) \/ IsError(y) THEN ZeroDivisionError
    ELSE IF x.k = "nan" \/ y.k = "nan" THEN NaN
    ELSE IF x.k = "inf" \/ y.k = "inf"
         THEN (IF IsZero(x) \/ IsZero(y) THEN NaN ELSE Inf(Xor(x.s, y.s)))
    ELSE IF IsZero(x) \/ IsZero(y) THEN Zero(Xor(x.s, y.s))
    ELSE RoundPack(Xor(x.s, y.s), BigMul(x.m, y.m), x.e + y.e, FALSE)

\* Python's x / y on floats: a zero divisor raises ZeroDivisionError
FDiv(x, y) ==
    IF IsError(x) \/ IsError(y) THEN ZeroDivisionError
    ELSE IF IsZero(y) THEN ZeroDivisionError
    ELSE IF x.k = "nan" \/ y.k = "nan" THEN NaN
    ELSE IF x.k = "inf" THEN (IF y.k = "inf" THEN NaN ELSE Inf(Xor(x.s, y.s)))
    ELSE IF y.k = "inf" THEN Zero(Xor(x.s, y.s))
    ELSE RatToFloat(Xor(x.s, y.s), x.m, y.m, x.e - y.e)

\* |x| * 10^ndigits rounded to the nearest integer, ties to even (x finite)
ScaledRound(x, ndigits) ==
    IF x.e >= 0 THEN BigMul(BigShl(x.m, x.e), BigPow10(ndigits))
    ELSE RoundShift(BigMul(x.m, BigPow10(ndigits)), -x.e, FALSE)

\* Python's round(x, ndigits) on a float, ndigits >= 0: the decimal with
\* ndigits places nearest to x (ties to even), read back as a float
PyRound(x, ndigits) ==
    IF ~IsFinite(x) \/ IsZero(x) \/ x.e >= 0 THEN x
    ELSE RatToFloat(x.s, ScaledRound(x, ndigits), BigPow10(ndigits), 0)

\* Python's format(x, ".2f") of a float x >= 0
Digit == <<"0", "1", "2", "3", "4", "5", "6", "7", "8", "9">>

RECURSIVE BigDecimal(_)
BigDecimalStep(qr) == BigDecimal(qr[1]) \o Digit[BigToInt(qr[2]) + 1]

BigDecimal(a) == IF a = <<>> THEN "" ELSE BigDecimalStep(BigDivMod(a, <<10>>))

FixedPoint2(whole, cents) ==
    (IF whole = <<>> THEN "0" ELSE BigDecimal(whole))
        \o "." \o Digit[(cents \div 10) + 1] \o Digit[(cents % 10) + 1]

FixedPoint2Of(qr) == FixedPoint2(qr[1], BigToInt(qr[2]))

Format2f(x) ==
    IF x.k = "nan" THEN "nan"
    ELSE IF x.k = "inf" THEN "inf"
    ELSE FixedPoint2Of(BigDivMod(ScaledRound(x, 2), <<100>>))

(***************************************************************************)
(* Outcomes of a call: it has not been made, it returned a value, or it    *)
(* raised an exception.                                                    *)
(***************************************************************************)
NotCalled == [st |-> "not called", val |-> <<>>]
Returned(v) == [st |-> "returned", val |-> v]
Raised(exc) == [st |-> "raised", val |-> exc]

\* The outcome of returning the value of an expression, x
Outcome(x) == IF IsError(x) THEN Raised("ZeroDivisionError") ELSE Returned(x)

(***************************************************************************)
(* cip.py: the rate engine                                                 *)
(***************************************************************************)
\* tenor_years = days_to_maturity / 365 (ACT/365; both operands are ints)
TenorYears(days_to_maturity) == IntTrueDiv(days_to_maturity, 365)

\* Variant of DomesticPayoff that discounts: 1 - domestic_rate_annual * tenor_years
DomesticPayoffDiscounting(domestic_rate_annual, days_to_maturity) ==
    FSub(FromInt(1), FMul(domestic_rate_annual, TenorYears(days_to_maturity)))

\* domestic_payoff = 1 + domestic_rate_annual * tenor_years
DomesticPayoff(domestic_rate_annual, days_to_maturity) ==
    FAdd(FromInt(1), FMul(domestic_rate_annual, TenorYears(days_to_maturity)))

\* Variant of ForeignGrowth that discounts: 1 - foreign_rate_scaled
ForeignGrowthDiscounting(foreign_rate_annual, days_to_maturity) ==
    FSub(FromInt(1), FMul(foreign_rate_annual, TenorYears(days_to_maturity)))

\* 1 + foreign_rate_scaled, the first factor of the foreign payoff
ForeignGrowth(foreign_rate_annual, days_to_maturity) ==
    FAdd(FromInt(1), FMul(foreign_rate_annual, TenorYears(days_to_maturity)))

\* Variant of ForeignPayoff that converts the wrong way: (1 + foreign_rate_scaled) * spot_rate
ForeignPayoffTimesSpot(foreign_rate_annual, days_to_maturity, spot_rate) ==
    FMul(ForeignGrowth(foreign_rate_annual, days_to_maturity), spot_rate)

\* foreign_payoff_in_foreign_currency = (1 + foreign_rate_scaled) * (1 / spot_rate)
ForeignPayoff(foreign_rate_annual, days_to_maturity, spot_rate) ==
    FMul(ForeignGrowth(foreign_rate_annual, days_to_maturity), FDiv(FromInt(1), spot_rate))

\* Variant of calculate_forward_rate that validates its input: a spot rate that
\* is not positive raises ValueError
calculate_forward_rate_validating(domestic_rate_annual, foreign_rate_annual, days_to_maturity, spot_rate) ==
    IF FLe(spot_rate, FromInt(0)) THEN Raised("ValueError")
    ELSE Outcome(FDiv(DomesticPayoff(domestic_rate_annual, days_to_maturity),
                      ForeignPayoff(foreign_rate_annual, days_to_maturity, spot_rate)))

calculate_forward_rate(domestic_rate_annual, foreign_rate_annual, days_to_maturity, spot_rate) ==
    Outcome(FDiv(DomesticPayoff(domestic_rate_annual, days_to_maturity),
                 ForeignPayoff(foreign_rate_annual, days_to_maturity, spot_rate)))

\* The for loop of calculate_multiple_forward_rates from its i-th iteration,
\* forward_rates being the list appended to so far; a raising call ends it.
RECURSIVE ForwardRatesLoop(_, _, _, _, _, _)
\* Variant of ForwardRatesAppend that inserts at the front of the list
ForwardRatesPrepend(domestic_rate_annual, foreign_rate_annual, tenors_days, spot_rate, i, forward_rates, r) ==
    IF r.st = "raised" THEN r
    ELSE ForwardRatesLoop(domestic_rate_annual, foreign_rate_annual, tenors_days,
                          spot_rate, i + 1, <<r.val>> \o forward_rates)

ForwardRatesAppend(domestic_rate_annual, foreign_rate_annual, tenors_days, spot_rate, i, forward_rates, r) ==
    IF r.st = "raised" THEN r
    ELSE ForwardRatesLoop(domestic_rate_annual, foreign_rate_annual, tenors_days,
                          spot_rate, i + 1, Append(forward_rates, r.val))

ForwardRatesLoop(domestic_rate_annual, foreign_rate_annual, tenors_days, spot_rate, i, forward_rates) ==
    IF i > Len(tenors_days) THEN Returned(forward_rates)
    ELSE ForwardRatesAppend(domestic_rate_annual, foreign_rate_annual, tenors_days,
             spot_rate, i, forward_rates,
             calculate_forward_rate(domestic_rate_annual, foreign_rate_annual,
                                    tenors_days[i], spot_rate))

calculate_multiple_forward_rates(domestic_rate_annual, foreign_rate_annual, tenors_days, spot_rate) ==
    ForwardRatesLoop(domestic_rate_annual, foreign_rate_annual, tenors_days, spot_rate, 1, <<>>)

\* The absolute tolerance of the equality check, the literal 1e-10
Tolerance == Dec(1, 10)

\* return abs(...) < 1e-10, for the value of abs(...)
WithinTolerance(gap) ==
    IF IsError(gap) THEN Raised("ZeroDivisionError") ELSE Returned(FLt(gap, Tolerance))

\* Variant of does_cip_equality_hold on the day count ACT/360
does_cip_equality_hold_act360(forward_rate, domestic_rate_annual, foreign_rate_annual, days_to_maturity, spot_rate) ==
    WithinTolerance(
        FAbs(FSub(FAdd(FromInt(1), FMul(domestic_rate_annual, IntTrueDiv(days_to_maturity, 360))),
                  FMul(FMul(FAdd(FromInt(1),
                                 FMul(foreign_rate_annual, IntTrueDiv(days_to_maturity, 360))),
                            FDiv(FromInt(1), spot_rate)),
                       forward_rate))))

does_cip_equality_hold(forward_rate, domestic_rate_annual, foreign_rate_annual, days_to_maturity, spot_rate) ==
    WithinTolerance(
        FAbs(FSub(FAdd(FromInt(1), FMul(domestic_rate_annual, IntTrueDiv(days_to_maturity, 365))),
                  FMul(FMul(FAdd(FromInt(1),
                                 FMul(foreign_rate_annual, IntTrueDiv(days_to_maturity, 365))),
                            FDiv(FromInt(1), spot_rate)),
                       forward_rate))))

(***************************************************************************)
(* cip_interpreter.py: ForwardRateInterpreter                              *)
(***************************************************************************)
ForwardRateInterpreter(forward_rate, spot_rate, tenor_days) ==
    [forward_rate |-> forward_rate, spot_rate |-> spot_rate, tenor_days |-> tenor_days]

\* The value of the expression self.forward_spot_ratio
Ratio(self) == PyRound(FDiv(self.forward_rate, self.spot_rate), 4)

forward_spot_ratio(self) == Outcome(Ratio(self))

forward_premium_discount(self) == Outcome(PyRound(FSub(Ratio(self), FromInt(1)), 4))

\* Variant of annualised_premium_discount that scales by tenor_days / 360
\* instead of its reciprocal
annualised_premium_discount_scaled(self) ==
    Outcome(PyRound(FMul(FSub(Ratio(self), FromInt(1)),
                         IntTrueDiv(self.tenor_days, 360)), 4))

annualised_premium_discount(self) ==
    Outcome(PyRound(FMul(FSub(Ratio(self), FromInt(1)),
                         FDiv(FromInt(1), IntTrueDiv(self.tenor_days, 360))), 4))

\* round half up: the result of round, moved up by one where round went down
\* from halfway
RoundHalfUp(x, rounded) ==
    IF FEq(FSub(x, rounded), Dec(5, 1)) THEN FAdd(rounded, FromInt(1)) ELSE rounded

\* Variant of forward_points that rounds half up
forward_points_half_up(self) ==
    Outcome(RoundHalfUp(FMul(FSub(self.forward_rate, self.spot_rate), FromInt(10000)),
                        PyRound(FMul(FSub(self.forward_rate, self.spot_rate), FromInt(10000)), 0)))

forward_points(self) ==
    Outcome(PyRound(FMul(FSub(self.forward_rate, self.spot_rate), FromInt(10000)), 0))

\* abs((self.forward_spot_ratio - 1) * 100) formatted with ".2f"
Magnitude(ratio) == Format2f(FAbs(FMul(FSub(ratio, FromInt(1)), FromInt(100))))

HigherStatements(pct) ==
    << "The forward rate is greater than the spot rate which implies that domestic rates are higher than foreign rates.",
       "Intuition: If the domestic rates are higher than foreign rates then the forward needs to be higher (foreign currency appreciation) than spot to makeup for higher domestic payoff.",
       "1 unit of foreign currency will buy more domestic currency at time T (today) than it does at today's spot (foreign currency is at a forward premium)",
       "Also means the same amount of domestic currency will buy less foreign currency at time T today than it does today's spot (domestic currency is at a forward discount)",
       "Domestic currency forward must be " \o pct \o "% cheaper (relative to spot) to prevent arbitrage.",
       "Foreign currency forward must be " \o pct \o "% more expensive (relative to spot) to prevent arbitrage." >>

LowerStatements(pct) ==
    << "The forward rate is less than the spot rate which implies that domestic rates are lower than foreign rates.",
       "Intuition: If the domestic rates are lower than foreign rates then the forward needs to be lower (foreign currency depreciation) than spot to makeup for lower domestic payoff.",
       "1 unit of foreign currency will buy less domestic currency at time T (today) than it does at today's spot (foreign currency is at a forward discount)",
       "Also means the same amount of domestic currency will buy more foreign currency at time T today than it does today's spot (domestic currency is at a forward premium)",
       "Domestic currency must be " \o pct \o "% more expensive in the forward (relative to spot) to prevent arbitrage.",
       "Foreign currency must be " \o pct \o "% cheaper in the forward to prevent arbitrage." >>

\* The branch of get_detailed_interpretations on the value of self.forward_spot_ratio
Interpretations(ratio) ==
    IF IsError(ratio) THEN Raised("ZeroDivisionError")
    ELSE IF FGt(ratio, FromInt(1)) THEN Returned(HigherStatements(Magnitude(ratio)))
    ELSE Returned(LowerStatements(Magnitude(ratio)))

get_detailed_interpretations(self) == Interpretations(Ratio(self))

(***************************************************************************)
(* The caller.  The library keeps no state of its own: the state is what   *)
(* a caller holds, a quote, the rates priced from it and the interpreter   *)
(* built on a forward rate.  The caller prices the quote, prices it again  *)
(* after a rate move, prices the tenor list, checks a forward rate (the    *)
(* computed one or an externally quoted one) against the quote, and        *)
(* constructs an interpreter from that forward rate and reads it.          *)
(***************************************************************************)
VARIABLES
    pc,                     \* where the caller is
    quote,                  \* the arguments of calculate_forward_rate
    requote,                \* the quote after a rate move
    tenors_days,            \* the tenor list of calculate_multiple_forward_rates
    quoted_forward,         \* an externally quoted forward rate
    forward_rate,           \* outcome of calculate_forward_rate on quote
    requote_forward_rate,   \* outcome of calculate_forward_rate on requote
    forward_rates,          \* outcome of calculate_multiple_forward_rates
    cip,                    \* the forward rate checked and the outcome of does_cip_equality_hold
    interpreter,            \* the fields of the ForwardRateInterpreter
    reads                   \* outcomes of the interpreter's properties and method

vars == <<pc, quote, requote, tenors_days, quoted_forward, forward_rate,
          requote_forward_rate, forward_rates, cip, interpreter, reads>>

None == [k |-> "None", s |-> 0, m |-> <<>>, e |-> 0]

Quote(d, f, t, s) ==
    [domestic_rate_annual |-> d, foreign_rate_annual |-> f,
     days_to_maturity |-> t, spot_rate |-> s]

NoReads ==
    [forward_spot_ratio |-> NotCalled, forward_premium_discount |-> NotCalled,
     annualised_premium_discount |-> NotCalled, forward_points |-> NotCalled,
     detailed_interpretations |-> NotCalled]

\* The state before any call, for a given choice of inputs
Start(q, rq, tenors, quoted) ==
    /\ pc = "start"
    /\ quote = q
    /\ requote = rq
    /\ tenors_days = tenors
    /\ quoted_forward = quoted
    /\ forward_rate = NotCalled
    /\ requote_forward_rate = NotCalled
    /\ forward_rates = NotCalled
    /\ cip = [forward_rate |-> None, holds |-> NotCalled]
    /\ interpreter = ForwardRateInterpreter(None, None, 0)
    /\ reads = NoReads

\* The float just above a positive finite x
NextUp(x) == RoundPack(x.s, BigAdd(x.m, <<1>>), x.e, FALSE)

MaxTenors == 3

\* All tenor lists of length at most n over the set S
RECURSIVE TenorLists(_, _)
TenorLists(S, n) ==
    IF n = 0 THEN {<<>>}
    ELSE LET shorter == TenorLists(S, n - 1)
         IN  shorter \cup {Append(l, t) : l \in shorter, t \in S}

DocTenors == <<30, 60, 90, 120>>

(* Inputs of the engine grid: ordinary rates and spots, the zero spot, the
   zero tenor, a negative tenor, the pole of the foreign payoff (-1.0 over
   365 days), a rate next to the pole (-3.65 over 100 days), an absurdly
   large rate, and the largest and smallest magnitudes of spot. *)
GridDomestic == {Dec(5, 2), Dec(-1, 2), FromInt(1000000)}
GridForeign == {Dec(2, 2), Dec(-1, 0), Dec(-365, 2)}
GridDays == {0, 100, 365, -30}
GridSpot == {Dec(1, 0), Dec(49, 0), Dec(11, 1), Zero(0), PowerOfTwo(0, 1023), PowerOfTwo(0, -1074)}

Init ==
    \E d \in GridDomestic, f \in GridForeign, t \in GridDays, s \in GridSpot :
        Start(Quote(d, f, t, s), Quote(d, f, t, s), DocTenors, Dec(10074, 4))

(* Inputs of the rate moves: one of the two rates of the quote moves. *)
MoveDomestic == {Dec(-2, 0), Dec(2, 2), Dec(5, 2), NextUp(Dec(5, 2))}
MoveForeign == {Dec(-2, 0), Dec(2, 2), Dec(3, 2), NextUp(Dec(3, 2))}
MoveDays == {30, 365}
MoveSpot == {Dec(1, 0), Dec(-11, 1)}

InitRates ==
    \E d \in MoveDomestic, f \in MoveForeign, t \in MoveDays, s \in MoveSpot :
        \E rq \in {Quote(d2, f, t, s) : d2 \in MoveDomestic}
                    \cup {Quote(d, f2, t, s) : f2 \in MoveForeign} :
            Start(Quote(d, f, t, s), rq, DocTenors, Dec(10074, 4))

(* Inputs of the tenor lists. *)
ListDays == {0, 30, 365}
ListSpot == {Dec(1, 0), Dec(11, 1), Zero(0)}
ListForeign == {Dec(2, 2), Dec(-1, 0)}

InitTenors ==
    \E f \in ListForeign, s \in ListSpot, tenors \in TenorLists(ListDays, MaxTenors) :
        Start(Quote(Dec(5, 2), f, 90, s), Quote(Dec(5, 2), f, 90, s), tenors, Dec(10074, 4))

(* Inputs of the interpreter: forward rates above, at and below spot, some
   within rounding distance of it, and some whose forward points fall
   halfway between two integers. *)
QuotedForwards ==
    {Dec(10074, 4), Dec(99, 2), Dec(100004, 5), Dec(99996, 5), Dec(1, 0), Dec(100025, 5),
     Dec(25, 5), Dec(35, 5), Dec(-15, 1)}
InterpreterSpot == {Dec(1, 0), Dec(2, 0), Dec(-2, 0), Zero(0)}
InterpreterDays == {90, 0}

InitInterpreter ==
    \E q \in QuotedForwards, s \in InterpreterSpot, t \in InterpreterDays :
        Start(Quote(Dec(5, 2), Dec(2, 2), t, s), Quote(Dec(5, 2), Dec(2, 2), t, s), DocTenors, q)

\* calculate_forward_rate on the quote, then on the requote
CalculateForwardRate ==
    \/ /\ pc = "start"
       /\ forward_rate' = calculate_forward_rate(quote.domestic_rate_annual,
              quote.foreign_rate_annual, quote.days_to_maturity, quote.spot_rate)
       /\ pc' = "priced"
       /\ UNCHANGED <<quote, requote, tenors_days, quoted_forward, requote_forward_rate,
                      forward_rates, cip, interpreter, reads>>
    \/ /\ pc = "priced"
       /\ requote_forward_rate' = calculate_forward_rate(requote.domestic_rate_annual,
              requote.foreign_rate_annual, requote.days_to_maturity, requote.spot_rate)
       /\ pc' = "repriced"
       /\ UNCHANGED <<quote, requote, tenors_days, quoted_forward, forward_rate,
                      forward_rates, cip, interpreter, reads>>

CalculateMultipleForwardRates ==
    /\ pc = "repriced"
    /\ forward_rates' = calculate_multiple_forward_rates(quote.domestic_rate_annual,
           quote.foreign_rate_annual, tenors_days, quote.spot_rate)
    /\ pc' = "curve"
    /\ UNCHANGED <<quote, requote, tenors_days, quoted_forward, forward_rate,
                   requote_forward_rate, cip, interpreter, reads>>

\* The forward rates the caller can pass on: the quoted one and the computed one
Held == {quoted_forward} \cup (IF forward_rate.st = "returned" THEN {forward_rate.val} ELSE {})

DoesCipEqualityHold ==
    /\ pc = "curve"
    /\ \E fr \in Held :
          cip' = [forward_rate |-> fr,
                  holds |-> does_cip_equality_hold(fr, quote.domestic_rate_annual,
                                quote.foreign_rate_annual, quote.days_to_maturity,
                                quote.spot_rate)]
    /\ pc' = "checked"
    /\ UNCHANGED <<quote, requote, tenors_days, quoted_forward, forward_rate,
                   requote_forward_rate, forward_rates, interpreter, reads>>

\* ForwardRateInterpreter(forward_rate, spot_rate, tenor_days) on the checked forward rate
Construct ==
    /\ pc = "checked"
    /\ interpreter' = ForwardRateInterpreter(cip.forward_rate, quote.spot_rate,
                                             quote.days_to_maturity)
    /\ pc' = "constructed"
    /\ UNCHANGED <<quote, requote, tenors_days, quoted_forward, forward_rate,
                   requote_forward_rate, forward_rates, cip, reads>>

ReadForwardSpotRatio ==
    /\ pc = "constructed"
    /\ reads' = [reads EXCEPT !.forward_spot_ratio = forward_spot_ratio(interpreter)]
    /\ pc' = "read ratio"
    /\ UNCHANGED <<quote, requote, tenors_days, quoted_forward, forward_rate,
                   requote_forward_rate, forward_rates, cip, interpreter>>

ReadForwardPremiumDiscount ==
    /\ pc = "read ratio"
    /\ reads' = [reads EXCEPT !.forward_premium_discount = forward_premium_discount(interpreter)]
    /\ pc' = "read premium"
    /\ UNCHANGED <<quote, requote, tenors_days, quoted_forward, forward_rate,
                   requote_forward_rate, forward_rates, cip, interpreter>>

ReadAnnualisedPremiumDiscount ==
    /\ pc = "read premium"
    /\ reads' = [reads EXCEPT !.annualised_premium_discount =
                                  annualised_premium_discount(interpreter)]
    /\ pc' = "read annualised"
    /\ UNCHANGED <<quote, requote, tenors_days, quoted_forward, forward_rate,
                   requote_forward_rate, forward_rates, cip, interpreter>>

ReadForwardPoints ==
    /\ pc = "read annualised"
    /\ reads' = [reads EXCEPT !.forward_points = forward_points(interpreter)]
    /\ pc' = "read points"
    /\ UNCHANGED <<quote, requote, tenors_days, quoted_forward, forward_rate,
                   requote_forward_rate, forward_rates, cip, interpreter>>

GetDetailedInterpretations ==
    /\ pc = "read points"
    /\ reads' = [reads EXCEPT !.detailed_interpretations =
                                  get_detailed_interpretations(interpreter)]
    /\ pc' = "done"
    /\ UNCHANGED <<quote, requote, tenors_days, quoted_forward, forward_rate,
                   requote_forward_rate, forward_rates, cip, interpreter>>

Next ==
    \/ CalculateForwardRate
    \/ CalculateMultipleForwardRates
    \/ DoesCipEqualityHold
    \/ Construct
    \/ ReadForwardSpotRatio
    \/ ReadForwardPremiumDiscount
    \/ ReadAnnualisedPremiumDiscount
    \/ ReadForwardPoints
    \/ GetDetailedInterpretations

Spec == Init /\ [][Next]_vars
SpecRates == InitRates /\ [][Next]_vars
SpecTenors == InitTenors /\ [][Next]_vars
SpecInterpreter == InitInterpreter /\ [][Next]_vars

(***************************************************************************)
(* Properties of the rate engine, checked under Spec                       *)
(***************************************************************************)
QuoteForward == forward_rate.val
QuoteDomesticPayoff == DomesticPayoff(quote.domestic_rate_annual, quote.days_to_maturity)
QuoteForeignGrowth == ForeignGrowth(quote.foreign_rate_annual, quote.days_to_maturity)
QuoteForeignPayoff ==
    ForeignPayoff(quote.foreign_rate_annual, quote.days_to_maturity, quote.spot_rate)

\* The caller checked the forward rate it had computed from the same quote
CheckedComputed ==
    /\ pc = "checked"
    /\ forward_rate.st = "returned"
    /\ cip.forward_rate = forward_rate.val

CipHolds == cip.holds.st = "returned" /\ cip.holds.val = TRUE

\* C1 as stated: whenever calculate_forward_rate(d, f, t, s) returns fr,
\* does_cip_equality_hold(fr, d, f, t, s) returns true.
C1_RoundTrip == CheckedComputed => CipHolds

\* The payoffs are finite and the domestic payoff is below 2^18 in magnitude
C1_Bounded ==
    /\ IsFinite(QuoteForward)
    /\ IsFinite(QuoteForeignPayoff)
    /\ FLt(FAbs(QuoteDomesticPayoff), PowerOfTwo(0, 18))

\* C1 amended: whenever calculate_forward_rate returns a finite fr, the foreign
\* payoff is finite and the domestic payoff 1 + d * t / 365 is below 2^18 in
\* magnitude, does_cip_equality_hold(fr, d, f, t, s) returns true.
C1_RoundTripBounded == (CheckedComputed /\ C1_Bounded) => CipHolds

\* C1 witness: the check of a computed one-year forward rate returned true
C1_Witness ==
    /\ CheckedComputed
    /\ C1_Bounded
    /\ CipHolds
    /\ quote.days_to_maturity = 365
    /\ ~IsZero(QuoteForward)

\* The quote has a zero tenor and finite rates, and its spot is a normal number
\* whose reciprocal is normal too
C2_ZeroTenor == pc # "start" /\ quote.days_to_maturity = 0

C2_Ordinary ==
    /\ IsFinite(quote.domestic_rate_annual)
    /\ IsFinite(quote.foreign_rate_annual)
    /\ IsFinite(quote.spot_rate)
    /\ FLe(PowerOfTwo(0, -1021), FAbs(quote.spot_rate))
    /\ FLe(FAbs(quote.spot_rate), PowerOfTwo(0, 1021))

\* C2 as stated: for every d, f and every spot_rate # 0,
\* calculate_forward_rate(d, f, 0, s) equals s.
C2_ZeroTenorIdentity ==
    (C2_ZeroTenor /\ ~IsZero(quote.spot_rate))
        => forward_rate.st = "returned" /\ FEq(QuoteForward, quote.spot_rate)

\* C2 amended: for finite d and f and every spot_rate s with 2^-1021 <= |s| <=
\* 2^1021, calculate_forward_rate(d, f, 0, s) returns s up to the rounding of
\* the two divisions: |result - s| <= 2^-51 * |s|.
C2_ZeroTenorNearIdentity ==
    (C2_ZeroTenor /\ C2_Ordinary)
        => /\ forward_rate.st = "returned"
           /\ FLe(FAbs(FSub(QuoteForward, quote.spot_rate)),
                  FMul(PowerOfTwo(0, -51), FAbs(quote.spot_rate)))

\* C2 witness: a zero-tenor forward rate that is next to the spot, not the spot
C2_Witness ==
    /\ C2_ZeroTenor
    /\ C2_Ordinary
    /\ forward_rate.st = "returned"
    /\ ~FEq(QuoteForward, quote.spot_rate)
    /\ FLe(FAbs(FSub(QuoteForward, quote.spot_rate)),
           FMul(PowerOfTwo(0, -51), FAbs(quote.spot_rate)))

\* C5: calculate_forward_rate(0.05, 0.02, 365, 1.0) is within 1e-4 of 1.0074.
C5_DocExample ==
    (pc # "start" /\ quote = Quote(Dec(5, 2), Dec(2, 2), 365, Dec(1, 0)))
        => /\ forward_rate.st = "returned"
           /\ FLe(FAbs(FSub(QuoteForward, Dec(10074, 4))), Dec(1, 4))

\* C10 as stated: calculate_forward_rate raises ZeroDivisionError if and only if
\* spot_rate == 0 or 1 + foreign_rate_annual * days_to_maturity / 365 == 0, and
\* returns a value on every other input.
C10_RaisesIffZero ==
    pc # "start"
        => IF IsZero(quote.spot_rate) \/ IsZero(QuoteForeignGrowth)
           THEN forward_rate = Raised("ZeroDivisionError")
           ELSE forward_rate.st = "returned"

\* C10 amended: calculate_forward_rate raises ZeroDivisionError if and only if
\* spot_rate == 0 or the computed foreign payoff (1 + f * t / 365) * (1 / s) is
\* zero, which it is when 1 + f * t / 365 == 0 and also when the product
\* underflows; it returns a value on every other input, unvalidated.
C10_RaisesIffZeroPayoff ==
    pc # "start"
        => IF IsZero(quote.spot_rate) \/ IsZero(QuoteForeignPayoff)
           THEN forward_rate = Raised("ZeroDivisionError")
           ELSE forward_rate.st = "returned" /\ IsValue(QuoteForward)

\* C10 witness: a negative tenor and a negative rate priced without complaint
C10_Witness ==
    /\ pc # "start"
    /\ quote.days_to_maturity < 0
    /\ quote.domestic_rate_annual.s = 1
    /\ forward_rate.st = "returned"
    /\ IsFinite(QuoteForward)
    /\ ~IsZero(QuoteForward)

\* C7: with spot_rate == 0, calculate_forward_rate, calculate_multiple_forward_rates
\* on a non-empty tenor list and does_cip_equality_hold raise, and with
\* tenor_days == 0 annualised_premium_discount raises: none returns a value.
C7_FailFast ==
    /\ (forward_rate.st # "not called" /\ IsZero(quote.spot_rate))
           => forward_rate.st = "raised"
    /\ (forward_rates.st # "not called" /\ IsZero(quote.spot_rate) /\ tenors_days # <<>>)
           => forward_rates.st = "raised"
    /\ (cip.holds.st # "not called" /\ IsZero(quote.spot_rate))
           => cip.holds.st = "raised"
    /\ (reads.annualised_premium_discount.st # "not called" /\ interpreter.tenor_days = 0)
           => reads.annualised_premium_discount.st = "raised"

\* C7 witness: all four calls were made with a zero spot and a zero tenor, and
\* all four raised
C7_Witness ==
    /\ IsZero(quote.spot_rate)
    /\ interpreter.tenor_days = 0
    /\ pc = "done"
    /\ forward_rate.st = "raised"
    /\ forward_rates.st = "raised"
    /\ cip.holds.st = "raised"
    /\ reads.annualised_premium_discount.st = "raised"

(***************************************************************************)
(* Properties of a rate move, checked under SpecRates: quote and requote   *)
(* differ in one rate, and both have been priced                           *)
(***************************************************************************)
RequoteForward == requote_forward_rate.val
RequoteForeignGrowth == ForeignGrowth(requote.foreign_rate_annual, requote.days_to_maturity)

BothPriced ==
    /\ pc = "repriced"
    /\ quote.days_to_maturity > 0
    /\ forward_rate.st = "returned"
    /\ requote_forward_rate.st = "returned"

DomesticUp ==
    /\ BothPriced
    /\ requote.foreign_rate_annual = quote.foreign_rate_annual
    /\ FLt(quote.domestic_rate_annual, requote.domestic_rate_annual)

ForeignUp ==
    /\ BothPriced
    /\ requote.domestic_rate_annual = quote.domestic_rate_annual
    /\ FLt(quote.foreign_rate_annual, requote.foreign_rate_annual)

NeitherNaN == QuoteForward.k # "nan" /\ RequoteForward.k # "nan"

\* C3 as stated: for fixed f, t > 0 and s, d1 < d2 implies
\* calculate_forward_rate(d1, f, t, s) < calculate_forward_rate(d2, f, t, s).
C3_StrictlyIncreasing == DomesticUp => FLt(QuoteForward, RequoteForward)

\* C3 amended: for fixed f, t > 0 and s whose computed foreign payoff
\* (1 + f * t / 365) * (1 / s) is positive, d1 < d2 implies
\* calculate_forward_rate(d1, f, t, s) <= calculate_forward_rate(d2, f, t, s)
\* whenever neither result is NaN.
C3_PositivePayoff == QuoteForeignPayoff.s = 0 /\ ~IsZero(QuoteForeignPayoff)

C3_NonDecreasing ==
    (DomesticUp /\ C3_PositivePayoff /\ NeitherNaN) => FLe(QuoteForward, RequoteForward)

\* C3 witness: a rise of the domestic rate, over a positive foreign payoff, that
\* raised the forward rate
C3_Witness ==
    /\ DomesticUp
    /\ C3_PositivePayoff
    /\ NeitherNaN
    /\ FLt(QuoteForward, RequoteForward)

\* C9 as stated: for fixed d, t > 0 and s, f1 < f2 implies
\* calculate_forward_rate(d, f1, t, s) >= calculate_forward_rate(d, f2, t, s)
\* whenever both calls return.
C9_NonIncreasing == ForeignUp => FLe(RequoteForward, QuoteForward)

\* C9 amended: the same, provided the computed domestic payoff 1 + d * t / 365
\* is zero or has the sign of s, the computed growth factors 1 + f1 * t / 365
\* and 1 + f2 * t / 365 are nonzero and of one sign, and neither result is NaN.
C9_SameSide ==
    /\ IsZero(QuoteDomesticPayoff) \/ QuoteDomesticPayoff.s = quote.spot_rate.s
    /\ ~IsZero(QuoteForeignGrowth)
    /\ ~IsZero(RequoteForeignGrowth)
    /\ QuoteForeignGrowth.s = RequoteForeignGrowth.s

C9_NonIncreasingSameSide ==
    (ForeignUp /\ C9_SameSide /\ NeitherNaN) => FLe(RequoteForward, QuoteForward)

\* C9 witness: a rise of the foreign rate that lowered the forward rate
C9_Witness ==
    /\ ForeignUp
    /\ C9_SameSide
    /\ FLt(RequoteForward, QuoteForward)

(***************************************************************************)
(* Properties of the tenor list, checked under SpecTenors                  *)
(***************************************************************************)
\* calculate_forward_rate on the i-th tenor of the list
TenorForward(i) ==
    calculate_forward_rate(quote.domestic_rate_annual, quote.foreign_rate_annual,
                           tenors_days[i], quote.spot_rate)

CurvePriced == pc = "curve"

EveryTenorReturns == \A i \in 1..Len(tenors_days) : TenorForward(i).st = "returned"

\* C4: calculate_multiple_forward_rates returns a list as long as the tenor
\* list whose i-th element is calculate_forward_rate on the i-th tenor, the
\* empty list for the empty list, and raises what a tenor's call raises.
C4_MultiTenorMapping ==
    CurvePriced =>
        IF EveryTenorReturns
        THEN /\ forward_rates.st = "returned"
             /\ Len(forward_rates.val) = Len(tenors_days)
             /\ \A i \in 1..Len(tenors_days) : forward_rates.val[i] = TenorForward(i).val
             /\ tenors_days = <<>> => forward_rates.val = <<>>
        ELSE \E i \in 1..Len(tenors_days) : forward_rates = TenorForward(i)

\* C4 witness: a priced list of three tenors, not all the same, first and last
\* rates different
C4_Witness ==
    /\ CurvePriced
    /\ EveryTenorReturns
    /\ Len(tenors_days) = 3
    /\ tenors_days[1] > tenors_days[2]
    /\ forward_rates.st = "returned"
    /\ forward_rates.val[1] # forward_rates.val[3]

(***************************************************************************)
(* Properties of the interpreter, checked under SpecInterpreter            *)
(***************************************************************************)
Interpreted == reads.detailed_interpretations.st = "returned"

InterpretedPct == Magnitude(Ratio(interpreter))

\* C6: an interpreter constructed with forward_rate > spot_rate returns the six
\* statements saying domestic rates are higher than foreign rates, one
\* constructed with forward_rate < spot_rate the six saying they are lower
\* (stated of the calls that return).
C6_BranchSelection ==
    Interpreted =>
        /\ Len(reads.detailed_interpretations.val) = 6
        /\ FGt(interpreter.forward_rate, interpreter.spot_rate)
               => reads.detailed_interpretations.val = HigherStatements(InterpretedPct)
        /\ FLt(interpreter.forward_rate, interpreter.spot_rate)
               => reads.detailed_interpretations.val = LowerStatements(InterpretedPct)

PointsRead == reads.forward_points.st # "not called"

\* (self.forward_rate - self.spot_rate) * 10_000, the value that is rounded
PointsExact ==
    FMul(FSub(interpreter.forward_rate, interpreter.spot_rate), FromInt(10000))

Points == reads.forward_points.val

IsInteger(x) == IsZero(x) \/ x.e >= 0 \/ ~BigLowBits(x.m, -x.e)
IsEvenInteger(x) == IsZero(x) \/ x.e >= 1 \/ ~BigLowBits(x.m, 1 - x.e)

PointsGap == FAbs(FSub(Points, PointsExact))

\* C8: forward_points is (forward_rate - spot_rate) * 10000 rounded to the
\* nearest integer, the even one of two equally near, and forward_rate = 1.0074
\* with spot_rate = 1.0 give 74.
C8_ForwardPoints ==
    PointsRead =>
        /\ reads.forward_points.st = "returned"
        /\ IsInteger(Points)
        /\ FLe(PointsGap, Dec(5, 1))
        /\ FEq(PointsGap, Dec(5, 1)) => IsEvenInteger(Points)
        /\ (interpreter.forward_rate = Dec(10074, 4) /\ interpreter.spot_rate = Dec(1, 0))
               => Points = FromInt(74)

\* C8 witness: forward points that were halfway between two integers
C8_Witness ==
    /\ PointsRead
    /\ reads.forward_points.st = "returned"
    /\ FEq(PointsGap, Dec(5, 1))
    /\ IsEvenInteger(Points)
    /\ PointsExact.s = 1
====
